---- MODULE Spec2Model ----
(***************************************************************************)
(* Model of the Logflare foreign data wrapper                              *)
(* (wrappers/src/fdw/logflare_fdw/logflare_fdw.rs): construction, the      *)
(* scan lifecycle begin_scan / iter_scan / end_scan, the JSON -> Cell      *)
(* coercion performed by resp_to_rows, the retries of the client built by  *)
(* create_client, and the validator.                                       *)
(*                                                                         *)
(* Conventions                                                             *)
(*  - Option<T> is a sequence of length 0 (None) or 1 (Some(x)).           *)
(*  - 64-bit integers do not fit TLC's integers; a magnitude is a tuple of *)
(*    four 16-bit limbs, least significant first, so that the range checks *)
(*    of i8/i16/i32/i64::try_from are made at the real bit widths.         *)
(*  - serde_json::Value is a record tagged by kind; an object is the       *)
(*    sequence of its (key, value) entries in key order.                   *)
(*  - A buffered row carries, besides its cells, the ghost field src =     *)
(*    <<scan number, record index>> naming the response record it was      *)
(*    built from.                                                          *)
(***************************************************************************)
EXTENDS Integers, Sequences, FiniteSets, TLC

VARIABLES
    base_url,       \* LogflareFdw.base_url
    client,         \* LogflareFdw.client : Option<ClientWithMiddleware>
    scan_result,    \* LogflareFdw.scan_result : Option<Vec<Row>>
    row,            \* the caller's output row handed to iter_scan
    ret,            \* what the last iter_scan returned: "None", "Some" or "-"
    reported,       \* errors passed to report_error by the last call
    panicked,       \* Option<String>: panic message of the last call
    op,             \* ghost: the last call made
    new_in,         \* ghost: the inputs of new
    scan_in,        \* ghost: the inputs of the last begin_scan
    outcome,        \* ghost: the path the last begin_scan took
    request,        \* ghost: Option<Url> of the request the last call issued
    gen,            \* ghost: number of begin_scan calls made so far
    iters,          \* ghost: iter_scan calls since the last begin_scan or end_scan
    vault_queries,  \* ghost: identifiers looked up in the secret store by new
    sent,           \* ghost: what the transport did during the last begin_scan
                    \*        and the attempts the client made
    validator_in    \* ghost: the inputs of the validator call

vars == <<base_url, client, scan_result, row, ret, reported, panicked,
          op, new_in, scan_in, outcome, request, gen, iters,
          vault_queries, sent, validator_in>>

\* the instance proper (the fields of struct LogflareFdw that carry state)
instance == <<base_url, client, scan_result>>

-----------------------------------------------------------------------------
(* Bounds *)

MaxScans == 2       \* begin_scan calls in one behaviour
MaxRecords == 2     \* records in the result array of a response
MaxOptions == 3     \* options handed to the validator

-----------------------------------------------------------------------------
(* Option *)

None == <<>>
Some(x) == <<x>>
IsSome(o) == Len(o) = 1
IsNone(o) == Len(o) = 0
Unwrap(o) == o[1]

-----------------------------------------------------------------------------
(* 64-bit magnitudes as four 16-bit limbs, least significant limb first *)

RECURSIVE Pow2(_)
Pow2(k) == IF k = 0 THEN 1 ELSE 2 * Pow2(k - 1)      \* k <= 16

Limb == Pow2(16)
Zero == <<0, 0, 0, 0>>
Small(n) == <<n, 0, 0, 0>>      \* 0 <= n < 65536

\* a <= b on magnitudes
LimbLE(a, b) ==
    IF a[4] # b[4] THEN a[4] < b[4]
    ELSE IF a[3] # b[3] THEN a[3] < b[3]
    ELSE IF a[2] # b[2] THEN a[2] < b[2]
    ELSE a[1] <= b[1]

\* 2^k as a magnitude, 0 <= k < 64
Pow2Mag(k) == [i \in 1..4 |-> IF i = (k \div 16) + 1 THEN Pow2(k % 16) ELSE 0]

\* 2^k - 1 as a magnitude, 0 <= k <= 64
Pow2Minus1Mag(k) ==
    [i \in 1..4 |-> IF i < (k \div 16) + 1 THEN Limb - 1
                    ELSE IF i = (k \div 16) + 1 THEN Pow2(k % 16) - 1
                    ELSE 0]

\* magnitude \div 10 and magnitude % 10 by schoolbook division on the limbs
DivMod10(m) ==
    LET q4 == m[4] \div 10
        r4 == m[4] % 10
        c3 == r4 * Limb + m[3]
        q3 == c3 \div 10
        r3 == c3 % 10
        c2 == r3 * Limb + m[2]
        q2 == c2 \div 10
        r2 == c2 % 10
        c1 == r2 * Limb + m[1]
        q1 == c1 \div 10
        r1 == c1 % 10
    IN  [q |-> <<q1, q2, q3, q4>>, r |-> r1]

RECURSIVE Digits(_)
Digits(m) == IF m = Zero THEN ""
             ELSE LET d == DivMod10(m) IN Digits(d.q) \o ToString(d.r)

\* the decimal numeral of a magnitude
Decimal(m) == IF m = Zero THEN "0" ELSE Digits(m)

\* a signed integer: the value is mag when neg is FALSE and -mag when TRUE
Int64(isneg, m) == [neg |-> isneg, mag |-> m]

-----------------------------------------------------------------------------
(* serde_json::Value *)

JNull == [kind |-> "null"]
JBool(b) == [kind |-> "bool", b |-> b]
\* serde_json::Number: PosInt(u64), NegInt(i64 < 0), Float(f64)
JPosInt(m) == [kind |-> "number", n |-> [t |-> "PosInt", mag |-> m]]
JNegInt(m) == [kind |-> "number", n |-> [t |-> "NegInt", mag |-> m]]
JFloat(text) == [kind |-> "number", n |-> [t |-> "Float", text |-> text]]
JString(s) == [kind |-> "string", s |-> s]
JArray(items) == [kind |-> "array", items |-> items]
JObject(entries) == [kind |-> "object", entries |-> entries]
Entry(k, v) == [k |-> k, v |-> v]

\* Value::as_object
as_object(v) == IF v.kind = "object" THEN Some(v.entries) ELSE None
\* Value::as_array
as_array(v) == IF v.kind = "array" THEN Some(v.items) ELSE None
\* Value::as_bool
as_bool(v) == IF v.kind = "bool" THEN Some(v.b) ELSE None
\* Value::as_str
as_str(v) == IF v.kind = "string" THEN Some(v.s) ELSE None

\* Value::as_i64: a PosInt above i64::MAX and a Float give None
as_i64(v) ==
    IF v.kind # "number" THEN None
    ELSE IF v.n.t = "PosInt"
         THEN IF LimbLE(v.n.mag, Pow2Minus1Mag(63))
              THEN Some(Int64(FALSE, v.n.mag)) ELSE None
    ELSE IF v.n.t = "NegInt" THEN Some(Int64(TRUE, v.n.mag))
    ELSE None

\* Value::as_f64: every number converts; the f64 is kept as the number it
\* was converted from
as_f64(v) == IF v.kind = "number" THEN Some([of |-> v.n]) ELSE None

\* Map::get on the entries of an object
RECURSIVE MapGet(_, _)
MapGet(entries, key) ==
    IF entries = <<>> THEN None
    ELSE IF Head(entries).k = key THEN Some(Head(entries).v)
    ELSE MapGet(Tail(entries), key)

\* Display for serde_json::Value (compact serialisation); the strings of the
\* model hold no character that needs escaping
RECURSIVE to_string(_)
RECURSIVE JoinValues(_)
RECURSIVE JoinEntries(_)
to_string(v) ==
    CASE v.kind = "null" -> "null"
      [] v.kind = "bool" -> IF v.b THEN "true" ELSE "false"
      [] v.kind = "number" ->
            IF v.n.t = "PosInt" THEN Decimal(v.n.mag)
            ELSE IF v.n.t = "NegInt" THEN "-" \o Decimal(v.n.mag)
            ELSE v.n.text
      [] v.kind = "string" -> "\"" \o v.s \o "\""
      [] v.kind = "array" -> "[" \o JoinValues(v.items) \o "]"
      [] v.kind = "object" -> "{" \o JoinEntries(v.entries) \o "}"
JoinValues(items) ==
    IF items = <<>> THEN ""
    ELSE IF Len(items) = 1 THEN to_string(items[1])
    ELSE to_string(items[1]) \o "," \o JoinValues(Tail(items))
JoinEntries(entries) ==
    IF entries = <<>> THEN ""
    ELSE LET e == Head(entries)
             s == "\"" \o e.k \o "\":" \o to_string(e.v)
         IN  IF Len(entries) = 1 THEN s
             ELSE s \o "," \o JoinEntries(Tail(entries))

-----------------------------------------------------------------------------
(* Columns, cells and rows *)

\* pg_sys type identifiers
BOOLOID == 16
CHAROID == 18
INT8OID == 20
INT2OID == 21
INT4OID == 23
TEXTOID == 25
FLOAT4OID == 700
FLOAT8OID == 701
DATEOID == 1082
TIMESTAMPOID == 1114
NUMERICOID == 1700
JSONBOID == 3802        \* a type resp_to_rows has no arm for

Column(name, oid) == [name |-> name, type_oid |-> oid]

CellBool(b) == [tag |-> "Bool", b |-> b]
CellI8(i) == [tag |-> "I8", i |-> i]
CellI16(i) == [tag |-> "I16", i |-> i]
CellI32(i) == [tag |-> "I32", i |-> i]
CellI64(i) == [tag |-> "I64", i |-> i]
CellF32(f) == [tag |-> "F32", f |-> f]
CellF64(f) == [tag |-> "F64", f |-> f]
CellNumeric(f) == [tag |-> "Numeric", f |-> f]
CellString(s) == [tag |-> "String", s |-> s]
CellDate(d) == [tag |-> "Date", d |-> d]
CellTimestamp(t) == [tag |-> "Timestamp", t |-> t]

\* Row::new and Row::push; src is the ghost origin of the row
EmptyRow == [src |-> <<0, 0>>, cells |-> <<>>]
RowPush(cells, name, cell) == Append(cells, [name |-> name, cell |-> cell])

-----------------------------------------------------------------------------
(* Errors *)

ERRCODE_FDW_ERROR == "ERRCODE_FDW_ERROR"
ERRCODE_FDW_INVALID_DATA_TYPE == "ERRCODE_FDW_INVALID_DATA_TYPE"

\* report_error(code, msg): the error is handed to the host and the call
\* goes on
report_error(log, code, msg) == Append(log, [code |-> code, msg |-> msg])

\* the message of the panic raised by column_type_mismatch!
column_type_mismatch(col) == "column '" \o col.name \o "' data type not match"

\* the message reported for a target type without an arm
unsupported_type_msg(col) ==
    "column '" \o col.name \o "' data type oid '" \o ToString(col.type_oid)
        \o "' is not supported"

\* results of the steps of resp_to_rows: a value together with the errors
\* reported on the way, or a panic (with the errors reported before it)
Ok(v, rep) == [st |-> "ok", v |-> v, rep |-> rep]
Panic(msg, rep) == [st |-> "panic", msg |-> msg, rep |-> rep]

-----------------------------------------------------------------------------
(* JSON -> Cell coercion (resp_to_rows) *)

\* try_from with the range taken symmetric: the minimum of the type is refused
try_from_symmetric(w, s) ==
    IF LimbLE(s.mag, Pow2Minus1Mag(w - 1)) THEN Some(s) ELSE None

\* i8/i16/i32::try_from(i64): the value when it fits w bits, else an error
try_from(w, s) ==
    IF \/ s.neg /\ LimbLE(s.mag, Pow2Mag(w - 1))
       \/ ~s.neg /\ LimbLE(s.mag, Pow2Minus1Mag(w - 1))
    THEN Some(s) ELSE None

\* Date::from_str and Timestamp::from_str succeed on the well-formed
\* literals
DateLiterals == {"2023-01-02"}
TimestampLiterals == {"2023-01-02T03:04:05"}
Date_from_str(s) == IF s \in DateLiterals THEN Some(s) ELSE None
Timestamp_from_str(s) == IF s \in TimestampLiterals THEN Some(s) ELSE None

\* the cell constructor of a variant
MkCell(tag, x) ==
    CASE tag = "Bool" -> CellBool(x)
      [] tag = "I8" -> CellI8(x)
      [] tag = "I16" -> CellI16(x)
      [] tag = "I32" -> CellI32(x)
      [] tag = "I64" -> CellI64(x)
      [] tag = "F32" -> CellF32(x)
      [] tag = "F64" -> CellF64(x)
      [] tag = "Numeric" -> CellNumeric(x)
      [] tag = "String" -> CellString(x)
      [] tag = "Date" -> CellDate(x)
      [] tag = "Timestamp" -> CellTimestamp(x)

\* Cell::Variant(o.unwrap_or_else(|| column_type_mismatch!(tgt_col)))
or_mismatch(o, col, tag) ==
    IF IsNone(o) THEN Panic(column_type_mismatch(col), <<>>)
    ELSE Ok(MkCell(tag, Unwrap(o)), <<>>)

\* v.as_i64().map(|s| iN::try_from(s).unwrap_or_else(mismatch))
\*           .unwrap_or_else(mismatch): either failure is the same mismatch
narrow_int(v, w, col, tag) ==
    LET s == as_i64(v)
    IN  or_mismatch(IF IsNone(s) THEN None ELSE try_from(w, Unwrap(s)), col, tag)

\* s as f32
as_f32(f) == [f32 |-> f]
\* AnyNumeric::try_from(f64): fails on NaN and infinities only, which JSON
\* cannot hold
AnyNumeric_try_from(f) == Some(f)

\* convert ending the call at a target type without an arm
convert_unsupported_stops(v, col) ==
    LET f == as_f64(v)
        str == as_str(v)
    IN
    CASE col.type_oid = BOOLOID -> or_mismatch(as_bool(v), col, "Bool")
      [] col.type_oid = CHAROID -> narrow_int(v, 8, col, "I8")
      [] col.type_oid = INT2OID -> narrow_int(v, 16, col, "I16")
      [] col.type_oid = FLOAT4OID ->
            or_mismatch(IF IsNone(f) THEN None ELSE Some(as_f32(Unwrap(f))),
                        col, "F32")
      [] col.type_oid = INT4OID -> narrow_int(v, 32, col, "I32")
      [] col.type_oid = FLOAT8OID -> or_mismatch(f, col, "F64")
      [] col.type_oid = INT8OID -> or_mismatch(as_i64(v), col, "I64")
      [] col.type_oid = NUMERICOID ->
            or_mismatch(IF IsNone(f) THEN None ELSE AnyNumeric_try_from(Unwrap(f)),
                        col, "Numeric")
      [] col.type_oid = TEXTOID -> or_mismatch(str, col, "String")
      [] col.type_oid = DATEOID ->
            or_mismatch(IF IsNone(str) THEN None ELSE Date_from_str(Unwrap(str)),
                        col, "Date")
      [] col.type_oid = TIMESTAMPOID ->
            or_mismatch(IF IsNone(str) THEN None
                        ELSE Timestamp_from_str(Unwrap(str)),
                        col, "Timestamp")
      [] OTHER ->
            Panic(unsupported_type_msg(col),
                  report_error(<<>>, ERRCODE_FDW_INVALID_DATA_TYPE,
                               unsupported_type_msg(col)))

\* the match on tgt_col.type_oid for a field v present in the record
convert(v, col) ==
    LET f == as_f64(v)
        str == as_str(v)
    IN
    CASE col.type_oid = BOOLOID -> or_mismatch(as_bool(v), col, "Bool")
      [] col.type_oid = CHAROID -> narrow_int(v, 8, col, "I8")
      [] col.type_oid = INT2OID -> narrow_int(v, 16, col, "I16")
      [] col.type_oid = FLOAT4OID ->
            or_mismatch(IF IsNone(f) THEN None ELSE Some(as_f32(Unwrap(f))),
                        col, "F32")
      [] col.type_oid = INT4OID -> narrow_int(v, 32, col, "I32")
      [] col.type_oid = FLOAT8OID -> or_mismatch(f, col, "F64")
      [] col.type_oid = INT8OID -> or_mismatch(as_i64(v), col, "I64")
      [] col.type_oid = NUMERICOID ->
            or_mismatch(IF IsNone(f) THEN None ELSE AnyNumeric_try_from(Unwrap(f)),
                        col, "Numeric")
      [] col.type_oid = TEXTOID -> or_mismatch(str, col, "String")
      [] col.type_oid = DATEOID ->
            or_mismatch(IF IsNone(str) THEN None ELSE Date_from_str(Unwrap(str)),
                        col, "Date")
      [] col.type_oid = TIMESTAMPOID ->
            or_mismatch(IF IsNone(str) THEN None
                        ELSE Timestamp_from_str(Unwrap(str)),
                        col, "Timestamp")
      [] OTHER ->
            Ok(CellBool(FALSE),
               report_error(<<>>, ERRCODE_FDW_INVALID_DATA_TYPE,
                            unsupported_type_msg(col)))

\* .map(|v| ...) on a present field: Some(cell), unless the conversion panics
some_cell(c) == IF c.st = "panic" THEN c ELSE Ok(Some(c.v), c.rep)

\* cell_for raising a mismatch for a field the record does not hold
cell_for_absent_mismatch(record, r, col) ==
    IF col.name = "_attrs" THEN Ok(Some(CellString(to_string(record))), <<>>)
    ELSE LET f == MapGet(r, col.name)
         IN  IF IsNone(f) THEN Panic(column_type_mismatch(col), <<>>)
             ELSE some_cell(convert(Unwrap(f), col))

\* cell_for passing the record through only for an _attrs column declared
\* as text
cell_for_attrs_text_only(record, r, col) ==
    IF col.name = "_attrs" /\ col.type_oid = TEXTOID
    THEN Ok(Some(CellString(to_string(record))), <<>>)
    ELSE LET f == MapGet(r, col.name)
         IN  IF IsNone(f) THEN Ok(None, <<>>)
             ELSE some_cell(convert(Unwrap(f), col))

\* the cell pushed for one target column of an object record: Option<Cell>
cell_for(record, r, col) ==
    IF col.name = "_attrs" THEN Ok(Some(CellString(to_string(record))), <<>>)
    ELSE LET f == MapGet(r, col.name)
         IN  IF IsNone(f) THEN Ok(None, <<>>)
             ELSE some_cell(convert(Unwrap(f), col))

\* the loop over tgt_cols for one object record, pushing onto cells
RECURSIVE push_cells(_, _, _, _, _)
RECURSIVE push_cell(_, _, _, _, _, _)
push_cells(record, r, cols, cells, rep) ==
    IF cols = <<>> THEN Ok(cells, rep)
    ELSE push_cell(cell_for(record, r, Head(cols)), record, r, cols, cells, rep)
\* push_cell leaving out the column of an absent field
push_cell_skip_absent(c, record, r, cols, cells, rep) ==
    IF c.st = "panic" THEN Panic(c.msg, rep \o c.rep)
    ELSE push_cells(record, r, Tail(cols),
                    IF IsNone(c.v) THEN cells
                    ELSE RowPush(cells, Head(cols).name, c.v),
                    rep \o c.rep)

\* row.push(&tgt_col.name, cell) for the cell c of the first of cols, then
\* the remaining columns
push_cell(c, record, r, cols, cells, rep) ==
    IF c.st = "panic" THEN Panic(c.msg, rep \o c.rep)
    ELSE push_cells(record, r, Tail(cols),
                    RowPush(cells, Head(cols).name, c.v), rep \o c.rep)

\* the closure mapping one record to a row: a record that is not an object
\* gives the empty row
record_to_row(record, cols) ==
    LET r == as_object(record)
    IN  IF IsSome(r) THEN push_cells(record, Unwrap(r), cols, <<>>, <<>>)
        ELSE Ok(<<>>, <<>>)

\* collect_rows skipping a record whose coercion fails
RECURSIVE collect_rows_skip(_, _, _, _, _, _)
RECURSIVE collect_row_skip(_, _, _, _, _, _, _)
collect_rows_skip(arr, cols, g, i, rows, rep) ==
    IF i > Len(arr) THEN Ok(rows, rep)
    ELSE collect_row_skip(record_to_row(arr[i], cols), arr, cols, g, i, rows, rep)
collect_row_skip(c, arr, cols, g, i, rows, rep) ==
    IF c.st = "panic"
    THEN collect_rows_skip(arr, cols, g, i + 1, rows, rep \o c.rep)
    ELSE collect_rows_skip(arr, cols, g, i + 1,
                           Append(rows, [src |-> <<g, i>>, cells |-> c.v]),
                           rep \o c.rep)

\* arr.iter().map(...).collect(): rows in the order of the records; the
\* first panic ends the collection.  g is the ghost scan number.
RECURSIVE collect_rows(_, _, _, _, _, _)
RECURSIVE collect_row(_, _, _, _, _, _, _)
collect_rows(arr, cols, g, i, rows, rep) ==
    IF i > Len(arr) THEN Ok(rows, rep)
    ELSE collect_row(record_to_row(arr[i], cols), arr, cols, g, i, rows, rep)
\* the row c of record i joins the collection, then the remaining records
collect_row(c, arr, cols, g, i, rows, rep) ==
    IF c.st = "panic" THEN Panic(c.msg, rep \o c.rep)
    ELSE collect_rows(arr, cols, g, i + 1,
                      Append(rows, [src |-> <<g, i>>, cells |-> c.v]),
                      rep \o c.rep)

\* body.as_object().and_then(get "result").and_then(as_array)
result_array(body) ==
    LET o == as_object(body)
    IN  IF IsNone(o) THEN None
        ELSE LET f == MapGet(Unwrap(o), "result")
             IN  IF IsNone(f) THEN None ELSE as_array(Unwrap(f))

\* .map(|arr| ...) on a result array: Some(rows), unless a coercion panics
some_rows(c) == IF c.st = "panic" THEN c ELSE Ok(Some(c.v), c.rep)

\* resp_to_rows: the value assigned to self.scan_result, or the panic that
\* prevents the assignment
resp_to_rows(body, tgt_cols, g) ==
    LET arr == result_array(body)
    IN  IF IsNone(arr) THEN Ok(None, <<>>)
        ELSE some_rows(collect_rows(Unwrap(arr), tgt_cols, g, 1, <<>>, <<>>))

-----------------------------------------------------------------------------
(* Options, URLs, the secret store and the client *)

\* A URL or path is the sequence of its pieces, "/" being a piece of its own
Slash == "/"
ends_with_slash(s) == s # <<>> /\ s[Len(s)] = Slash

\* LogflareFdw::BASE_URL
BASE_URL == <<"https://api.logflare.app", Slash, "api", Slash, "endpoints",
              Slash, "query", Slash>>

\* Url::join for a relative path: what follows the last "/" of the base is
\* replaced by the path
RECURSIVE UpToLastSlash(_)
UpToLastSlash(s) ==
    IF s = <<>> \/ ends_with_slash(s) THEN s
    ELSE UpToLastSlash(SubSeq(s, 1, Len(s) - 1))
Url_join(base, path) == UpToLastSlash(base) \o path

\* HashMap::get
OptGet(options, key) ==
    IF key \in DOMAIN options THEN Some(options[key]) ELSE None

\* require_option(name, options): the value when the option is present
require_option(name, options) == OptGet(options, name)

\* get_vault_secret(key_id): the secret stored under the identifier, if any
get_vault_secret(vault, key_id) == OptGet(vault, key_id)

\* the retry bound given to ExponentialBackoff
MAX_RETRIES == 3

\* create_client building the retry policy with one retry less
create_client_fewer_retries(api_key) ==
    [api_key |-> api_key, max_retries |-> MAX_RETRIES - 1]

\* create_client(api_key): a client sending the key in its x-api-key header
\* and retrying up to MAX_RETRIES times
create_client(api_key) == [api_key |-> api_key, max_retries |-> MAX_RETRIES]

\* the outcome of one attempt: a transport error, or a response with its
\* status and its body as resp.json() parses it (None when the body is not
\* JSON)
TransportError(e) == [t |-> "err", err |-> e]
Response(status, json) == [t |-> "resp", status |-> status, json |-> json]

\* the behaviour of the transport during one request: its first `fails`
\* attempts time out, every later attempt is answered `then`
Transport(fails, then) == [fails |-> fails, then |-> then]
attempt(t, i) == IF i <= t.fails THEN TransportError("timeout") ELSE t.then

\* the outcomes the retry middleware takes for transient: connection and
\* timeout errors, and the statuses 408, 429 and 5xx
TransientErrors == {"timeout", "connect"}
is_transient(r) ==
    \/ r.t = "err" /\ r.err \in TransientErrors
    \/ r.t = "resp" /\ (r.status \in {408, 429} \/ (r.status >= 500 /\ r.status <= 599))

\* client.get(url).send() through RetryTransientMiddleware: the request is
\* attempted again after a transient outcome while fewer than max_retries
\* retries were made; n is the number of retries made so far
RECURSIVE send(_, _, _)
send(c, t, n) ==
    IF is_transient(attempt(t, n + 1)) /\ n < c.max_retries
    THEN send(c, t, n + 1)
    ELSE [resp |-> attempt(t, n + 1), attempts |-> n + 1]

-----------------------------------------------------------------------------
(* ForeignDataWrapper for LogflareFdw *)

\* new resolving the secret reference first and falling back to the literal
new_vault_first(options, vault) ==
    LET api_url == OptGet(options, "api_url")
        url == IF IsNone(api_url) THEN BASE_URL
               ELSE IF ends_with_slash(Unwrap(api_url)) THEN Unwrap(api_url)
               ELSE Append(Unwrap(api_url), Slash)
        api_key == OptGet(options, "api_key")
        key_id == require_option("api_key_id", options)
        secret == IF IsNone(key_id) THEN None
                  ELSE get_vault_secret(vault, Unwrap(key_id))
        key == IF IsSome(secret) THEN secret ELSE api_key
    IN  [base_url |-> url,
         client |-> IF IsNone(key) THEN None ELSE Some(create_client(Unwrap(key))),
         scan_result |-> None,
         queries |-> IF IsNone(key_id) THEN <<>> ELSE <<Unwrap(key_id)>>]

\* new taking the identifier itself as the key when the secret store does
\* not resolve it
new_id_as_key(options, vault) ==
    LET api_url == OptGet(options, "api_url")
        url == IF IsNone(api_url) THEN BASE_URL
               ELSE IF ends_with_slash(Unwrap(api_url)) THEN Unwrap(api_url)
               ELSE Append(Unwrap(api_url), Slash)
        api_key == OptGet(options, "api_key")
        key_id == require_option("api_key_id", options)
        secret == IF IsNone(key_id) THEN None
                  ELSE get_vault_secret(vault, Unwrap(key_id))
        key == IF IsSome(api_key) THEN api_key
               ELSE IF IsSome(secret) THEN secret ELSE key_id
    IN  [base_url |-> url,
         client |-> IF IsNone(key) THEN None ELSE Some(create_client(Unwrap(key))),
         scan_result |-> None,
         queries |-> IF IsSome(api_key) \/ IsNone(key_id) THEN <<>>
                     ELSE <<Unwrap(key_id)>>]

\* new(options): the instance, and the secret-store lookups made
new(options, vault) ==
    LET api_url == OptGet(options, "api_url")
        url == IF IsNone(api_url) THEN BASE_URL
               ELSE IF ends_with_slash(Unwrap(api_url)) THEN Unwrap(api_url)
               ELSE Append(Unwrap(api_url), Slash)
        api_key == OptGet(options, "api_key")
        key_id == require_option("api_key_id", options)
        secret == IF IsNone(key_id) THEN None
                  ELSE get_vault_secret(vault, Unwrap(key_id))
    IN  IF IsSome(api_key)
        THEN [base_url |-> url,
              client |-> Some(create_client(Unwrap(api_key))),
              scan_result |-> None,
              queries |-> <<>>]
        ELSE [base_url |-> url,
              client |-> IF IsNone(secret) THEN None
                         ELSE Some(create_client(Unwrap(secret))),
              scan_result |-> None,
              queries |-> IF IsNone(key_id) THEN <<>> ELSE <<Unwrap(key_id)>>]

NOT_FOUND == 404
\* Response::error_for_status fails on client and server error statuses
is_error_status(status) == status >= 400 /\ status <= 599

request_failed(e) == "request failed: " \o e
status_error(status) == "HTTP status error (" \o ToString(status) \o ")"
\* the panic of unwrap() on the error of resp.json()
json_unwrap_msg == "called Result::unwrap() on an Err value: error decoding response body"

\* the result of a begin_scan call: the new buffer, the errors reported,
\* the panic if any, the request issued and the path taken
ScanEffect(sr, rep, pan, req, path) ==
    [scan_result |-> sr, reported |-> rep, panicked |-> pan,
     request |-> req, outcome |-> path]

\* self.resp_to_rows(&body, columns): the assignment to self.scan_result of
\* the outcome c of resp_to_rows, which a panic prevents
store_rows(c, self, url) ==
    IF c.st = "panic"
    THEN ScanEffect(self.scan_result, c.rep, Some(c.msg), url, "mismatch")
    ELSE ScanEffect(c.v, c.rep, None, url, "ok")

\* begin_scan(_quals, columns, _sorts, _limit, options) on an instance with
\* the given base_url, client and scan_result; resp is what the transport
\* answers if a request is sent, g the ghost scan number
begin_scan(self, columns, options, resp, g) ==
    LET endpoint == require_option("endpoint", options)
    IN  IF IsNone(endpoint)
        THEN ScanEffect(self.scan_result, <<>>, None, None, "no_endpoint")
        ELSE IF IsNone(self.client)
        THEN ScanEffect(self.scan_result, <<>>, None, None, "no_client")
        ELSE LET url == Some(Url_join(self.base_url, Unwrap(endpoint)))
             IN  IF resp.t = "err"
                 THEN ScanEffect(self.scan_result,
                                 report_error(<<>>, ERRCODE_FDW_ERROR,
                                              request_failed(resp.err)),
                                 None, url, "transport")
                 ELSE IF resp.status = NOT_FOUND
                 THEN ScanEffect(self.scan_result, <<>>, None, url, "not_found")
                 ELSE IF is_error_status(resp.status)
                 THEN ScanEffect(self.scan_result,
                                 report_error(<<>>, ERRCODE_FDW_ERROR,
                                     request_failed(status_error(resp.status))),
                                 None, url, "status")
                 ELSE IF IsNone(resp.json)
                 THEN ScanEffect(self.scan_result, <<>>, Some(json_unwrap_msg),
                                 url, "bad_json")
                 ELSE store_rows(resp_to_rows(Unwrap(resp.json), columns, g),
                                 self, url)

\* iter_scan draining the buffer from its back
iter_scan_lifo(sr, r) ==
    IF IsSome(sr) /\ Unwrap(sr) # <<>>
    THEN [scan_result |-> Some(SubSeq(Unwrap(sr), 1, Len(Unwrap(sr)) - 1)),
          row |-> Unwrap(sr)[Len(Unwrap(sr))], ret |-> "Some"]
    ELSE [scan_result |-> sr, row |-> r, ret |-> "None"]

\* iter_scan releasing the buffer once it is exhausted
iter_scan_take(sr, r) ==
    IF IsSome(sr) /\ Unwrap(sr) # <<>>
    THEN [scan_result |-> Some(Tail(Unwrap(sr))), row |-> Head(Unwrap(sr)),
          ret |-> "Some"]
    ELSE [scan_result |-> None, row |-> r, ret |-> "None"]

\* iter_scan(row): the buffer and the caller's row afterwards, and whether
\* Some(()) or None is returned
iter_scan(sr, r) ==
    IF IsSome(sr) /\ Unwrap(sr) # <<>>
    THEN [scan_result |-> Some(Tail(Unwrap(sr))), row |-> Head(Unwrap(sr)),
          ret |-> "Some"]
    ELSE [scan_result |-> sr, row |-> r, ret |-> "None"]

\* end_scan releasing the buffer only once it is drained
end_scan_if_drained(sr) == IF IsSome(sr) /\ Unwrap(sr) # <<>> THEN sr ELSE None

\* end_scan(): the buffer after self.scan_result.take()
end_scan(sr) == None

\* An option handed to the validator is the text key=value, here the
\* sequence of its pieces
starts_with(s, prefix) ==
    Len(s) >= Len(prefix) /\ SubSeq(s, 1, Len(prefix)) = prefix

ERRCODE_FDW_OPTION_NAME_NOT_FOUND == "ERRCODE_FDW_OPTION_NAME_NOT_FOUND"
option_not_specified(tgt) == "required option '" \o tgt \o "' is not specified"

\* check_options_contain(opt_list, tgt): reports an error unless one of the
\* options starts with tgt=
check_options_contain(opt_list, tgt) ==
    IF \E i \in 1..Len(opt_list) :
          IsSome(opt_list[i]) /\ starts_with(Unwrap(opt_list[i]), <<tgt, "=">>)
    THEN <<>>
    ELSE report_error(<<>>, ERRCODE_FDW_OPTION_NAME_NOT_FOUND,
                      option_not_specified(tgt))

\* the catalog of foreign tables
FOREIGN_TABLE_RELATION_ID == 3118

\* validator requiring the endpoint for every kind of object
validator_any_catalog(options, catalog) ==
    IF IsSome(catalog) THEN check_options_contain(options, "endpoint") ELSE <<>>

\* validator(options, catalog): the errors reported
validator(options, catalog) ==
    IF IsSome(catalog) /\ Unwrap(catalog) = FOREIGN_TABLE_RELATION_ID
    THEN check_options_contain(options, "endpoint")
    ELSE <<>>

-----------------------------------------------------------------------------
(* Inputs *)

\* the secret store
Vault == [id1 |-> "s1"]

\* server options given to new
ServerOptions ==
    { [api_key |-> "k1"],
      [api_key |-> "k1", api_key_id |-> "id1"],
      [api_key_id |-> "id1"],
      [api_key_id |-> "id2"],
      [api_url |-> <<"https://x.test">>, api_key |-> "k1"],
      [api_url |-> <<"https://x.test", Slash>>] }

\* server options of the instances whose scans are explored
ScanServerOptions ==
    { [api_url |-> <<"https://x.test">>, api_key |-> "k1"],
      [api_key_id |-> "id2"],
      [api_url |-> <<"https://x.test", Slash>>] }

\* table options given to begin_scan
TableOptions == { [endpoint |-> <<"items">>], [comment |-> <<"none">>] }

\* target columns given to begin_scan
ColumnLists ==
    { <<Column("id", INT4OID), Column("name", TEXTOID)>>,
      <<Column("_attrs", INT4OID), Column("name", JSONBOID),
        Column("id", INT2OID)>> }

\* records of a result array
Rec(id, name) == JObject(<<Entry("id", id), Entry("name", name)>>)
Records ==
    { Rec(JPosInt(Small(1)), JString("a")),
      Rec(JPosInt(Small(40000)), JString("b")) }

SeqsUpTo(S, n) == UNION { [1..k -> S] : k \in 0..n }

ResultBody(arr) == JObject(<<Entry("result", JArray(arr))>>)

\* JSON bodies: result arrays, and bodies without a result array
Bodies ==
    { ResultBody(arr) : arr \in SeqsUpTo(Records, MaxRecords) }
    \cup { JArray(<<Rec(JPosInt(Small(1)), JString("a"))>>),
           JObject(<<Entry("error", JString("x"))>>),
           JObject(<<Entry("result", JString("x"))>>) }

\* the transport is asked nothing by a call that sends no request
NoResponse == [t |-> "none"]

\* what the transport can answer
Responses ==
    { TransportError("timeout"),
      Response(404, None),
      Response(500, None),
      Response(300, Some(ResultBody(<<Rec(JPosInt(Small(1)), JString("a"))>>))),
      Response(200, None) }
    \cup { Response(200, Some(b)) : b \in Bodies }

\* transports answering at the first attempt
Transports == { Transport(0, r) : r \in Responses }

-----------------------------------------------------------------------------
(* The state machine *)

\* no request was sent
NoSend == [transport |-> NoResponse, attempts |-> 0]

InitWith(options, pending) ==
    LET self == new(options, Vault)
    IN  /\ base_url = self.base_url
        /\ client = self.client
        /\ scan_result = self.scan_result
        /\ vault_queries = self.queries
        /\ new_in = [options |-> options, vault |-> Vault]
        /\ row = EmptyRow
        /\ ret = "-"
        /\ reported = <<>>
        /\ panicked = None
        /\ op = "new"
        /\ scan_in = pending
        /\ outcome = "-"
        /\ request = None
        /\ gen = 0
        /\ iters = 0
        /\ sent = NoSend

\* the state new(options) returns
Init ==
    /\ \E options \in ScanServerOptions : InitWith(options, None)
    /\ validator_in = None

Min(a, b) == IF a <= b THEN a ELSE b

\* A call of begin_scan.  A call that panics leaves the instance as it was
\* when the panic was raised; the host may catch the unwinding and go on
\* using the instance.
Returned(e, columns, options, resp) ==
    /\ scan_result' = e.scan_result
    /\ reported' = e.reported
    /\ panicked' = e.panicked
    /\ request' = e.request
    /\ outcome' = e.outcome
    /\ scan_in' = Some([columns |-> columns, options |-> options, resp |-> resp])
    /\ op' = "begin_scan"
    /\ gen' = gen + 1
    /\ iters' = 0
    /\ ret' = "-"
    /\ UNCHANGED <<base_url, client, row, new_in, vault_queries, validator_in>>

BeginScanWith(columns, options, resp) ==
    Returned(begin_scan([base_url |-> base_url, client |-> client,
                         scan_result |-> scan_result],
                        columns, options, resp, gen + 1),
             columns, options, resp)

\* the transport answers exactly the calls that send a request (whether
\* one is sent does not depend on the answer)
Answers(columns, options, resp) ==
    LET e == begin_scan([base_url |-> base_url, client |-> client,
                         scan_result |-> scan_result],
                        columns, options, TransportError("probe"), gen + 1)
    IN  IsNone(e.request) <=> resp = NoResponse

\* begin_scan with the outcome s of send for the transport t
Sent(s, columns, options, t) ==
    /\ BeginScanWith(columns, options, s.resp)
    /\ sent' = [transport |-> t, attempts |-> s.attempts]

\* begin_scan against the transport t, or against no transport at all when
\* the call sends no request
BeginScanOver(columns, options, t) ==
    /\ Answers(columns, options, t)
    /\ IF t = NoResponse
       THEN /\ BeginScanWith(columns, options, NoResponse)
            /\ sent' = NoSend
       ELSE Sent(send(Unwrap(client), t, 0), columns, options, t)

BeginScan ==
    /\ gen < MaxScans
    /\ \E columns \in ColumnLists, options \in TableOptions,
          t \in Transports \cup {NoResponse} :
            BeginScanOver(columns, options, t)

\* A call of iter_scan
IterScan ==
    LET e == iter_scan(scan_result, row)
    IN  /\ scan_result' = e.scan_result
        /\ row' = e.row
        /\ ret' = e.ret
        /\ reported' = <<>>
        /\ panicked' = None
        /\ request' = None
        /\ op' = "iter_scan"
        /\ iters' = Min(iters + 1, MaxRecords + 1)
        /\ UNCHANGED <<base_url, client, new_in, scan_in, outcome, gen,
                       vault_queries, sent, validator_in>>

\* A call of end_scan
EndScan ==
    /\ scan_result' = end_scan(scan_result)
    /\ ret' = "-"
    /\ reported' = <<>>
    /\ panicked' = None
    /\ request' = None
    /\ op' = "end_scan"
    /\ iters' = 0
    /\ UNCHANGED <<base_url, client, row, new_in, scan_in, outcome, gen,
                   vault_queries, sent, validator_in>>

Next == BeginScan \/ IterScan \/ EndScan

Spec == Init /\ [][Next]_vars

-----------------------------------------------------------------------------
(* One scan: the coercion of records over the shapes and the integer
   boundaries, and the retries of its request *)

\* m + 1 for a magnitude whose lowest limb is not full
Inc(m) == [m EXCEPT ![1] = @ + 1]

\* magnitudes at the boundaries of the 8, 16, 32 and 64 bit ranges
BoundaryMags ==
    UNION { {Pow2Minus1Mag(w - 1), Pow2Mag(w - 1), Inc(Pow2Mag(w - 1))} :
            w \in {8, 16, 32, 64} }

\* integers serde_json holds as PosInt (u64) and as NegInt (negative i64)
IntegerValues ==
    { JPosInt(m) : m \in BoundaryMags \cup {Zero, Small(1), Pow2Minus1Mag(64)} }
    \cup { JNegInt(m) : m \in (BoundaryMags \cup {Small(1)}) \ {Inc(Pow2Mag(63))} }

OtherValues ==
    { JNull, JBool(TRUE), JFloat("1.5"), JString("a"), JString("2023-01-02"),
      JString("2023-01-02T03:04:05"), JArray(<<JPosInt(Small(1))>>),
      JObject(<<Entry("k", JPosInt(Small(1)))>>) }

SourceValues == IntegerValues \cup OtherValues

TypeOids == { BOOLOID, CHAROID, INT2OID, FLOAT4OID, INT4OID, FLOAT8OID, INT8OID,
              NUMERICOID, TEXTOID, DATEOID, TIMESTAMPOID, JSONBOID }

OneRecord(columns, record) ==
    [columns |-> columns, options |-> [endpoint |-> <<"items">>],
     transport |-> Transport(0, Response(200, Some(ResultBody(<<record>>))))]

\* transports failing up to MAX_RETRIES + 2 times before they answer
FailCounts == 0..(MAX_RETRIES + 2)
FinalAnswers ==
    { Response(200, Some(ResultBody(<<JObject(<<Entry("v", JPosInt(Small(1)))>>)>>))),
      Response(404, None), Response(400, None), Response(500, None),
      TransportError("timeout"), TransportError("connect"),
      TransportError("redirect") }
Retried(fails, then) ==
    [columns |-> <<Column("v", INT4OID)>>, options |-> [endpoint |-> <<"items">>],
     transport |-> Transport(fails, then)]
RetryInputs == { Retried(k, r) : k \in FailCounts, r \in FinalAnswers }

\* one record and one target column: the field present, the field absent,
\* and the reserved column over records of every shape
CoerceInputs ==
    { OneRecord(<<Column("v", oid)>>, JObject(<<Entry("v", v)>>)) :
        oid \in TypeOids, v \in SourceValues }
    \cup { OneRecord(<<Column("w", oid)>>, JObject(<<Entry("v", v)>>)) :
        oid \in TypeOids, v \in {JNull, JPosInt(Small(1)), JString("a")} }
    \cup { OneRecord(<<Column("_attrs", oid)>>, r) :
        oid \in {TEXTOID, INT4OID, JSONBOID},
        r \in SourceValues \cup { JObject(<<Entry("v", v)>>) : v \in SourceValues } }

\* responses of up to two records, objects with their fields in an order
\* other than that of the columns, objects lacking a field, and a record
\* that is not an object
ShapeColumns ==
    <<Column("b", TEXTOID), Column("_attrs", TEXTOID), Column("a", INT4OID)>>
ShapeRecords ==
    { JObject(<<Entry("a", JPosInt(Small(1))), Entry("b", JString("x"))>>),
      JObject(<<Entry("b", JString("y"))>>),
      JPosInt(Small(7)) }
ShapeInputs ==
    { [columns |-> ShapeColumns, options |-> [endpoint |-> <<"items">>],
       transport |-> Transport(0, Response(200, Some(ResultBody(arr))))] :
        arr \in SeqsUpTo(ShapeRecords, 2) }

\* an instance built from any server options with one scan to make, or an
\* instance with a client and any one-record scan to make
InitCoerce ==
    /\ validator_in = None
    /\ \/ \E options \in ServerOptions :
            InitWith(options, Some(OneRecord(<<Column("v", INT4OID)>>,
                                   JObject(<<Entry("v", JPosInt(Small(1)))>>))))
       \/ \E pending \in CoerceInputs \cup RetryInputs \cup ShapeInputs :
            InitWith([api_key |-> "k1"], Some(pending))

\* the one begin_scan call of the instance, with the inputs drawn
BeginScanGiven ==
    /\ op = "new"
    /\ LET in == Unwrap(scan_in)
       IN  \E t \in {in.transport, NoResponse} :
               BeginScanOver(in.columns, in.options, t)

NextCoerce == BeginScanGiven \/ IterScan \/ EndScan

SpecCoerce == InitCoerce /\ [][NextCoerce]_vars

-----------------------------------------------------------------------------
(* The validator, over option lists and object kinds *)

\* options as the host hands them over: absent entries, the endpoint, and an
\* option whose name only begins like it
OptionEntries ==
    { None, Some(<<"endpoint", "=", "items">>), Some(<<"endpoints", "=", "a">>) }
OptionLists == SeqsUpTo(OptionEntries, MaxOptions)

\* no object kind, the foreign tables, the foreign servers and the foreign
\* data wrappers
Catalogs == { None, Some(FOREIGN_TABLE_RELATION_ID), Some(1417), Some(2328) }

InitValidator ==
    \E options \in OptionLists, catalog \in Catalogs :
        /\ InitWith([api_key |-> "k1"], None)
        /\ validator_in = Some([options |-> options, catalog |-> catalog])

\* The call of validator with the inputs drawn
Validator ==
    /\ op = "new"
    /\ IsSome(validator_in)
    /\ reported' = validator(Unwrap(validator_in).options,
                             Unwrap(validator_in).catalog)
    /\ panicked' = None
    /\ request' = None
    /\ ret' = "-"
    /\ op' = "validator"
    /\ UNCHANGED <<base_url, client, scan_result, row, new_in, scan_in, outcome,
                   gen, iters, vault_queries, sent, validator_in>>

NextValidator == Validator

SpecValidator == InitValidator /\ [][NextValidator]_vars

-----------------------------------------------------------------------------
(* Properties *)

\* the rows iter_scan can still return
Buffered == IF IsSome(scan_result) THEN Unwrap(scan_result) ELSE <<>>

\* the inputs of the last begin_scan
ScanIn == Unwrap(scan_in)

\* the last begin_scan sent a request and was answered with a response
Answered == gen > 0 /\ ScanIn.resp.t = "resp"

\* the last begin_scan handed a JSON body to resp_to_rows
Parsed == gen > 0 /\ outcome \in {"ok", "mismatch"}

\* ... and the body holds a result array
HasArray == Parsed /\ IsSome(result_array(Unwrap(ScanIn.resp.json)))
ResultArray == Unwrap(result_array(Unwrap(ScanIn.resp.json)))

\* C1: a begin_scan whose request is answered 404 leaves the row buffer
\* empty and reports no error, whatever the state of the instance before
C1_NotFoundLeavesBufferEmpty ==
    (op = "begin_scan" /\ Answered /\ ScanIn.resp.status = NOT_FOUND)
        => /\ Buffered = <<>>
           /\ reported = <<>>
           /\ IsNone(panicked)

\* C2: after a successful begin_scan over n records, the k-th iter_scan
\* (k <= n) returns the row of the k-th record and leaves n - k rows, those
\* of the records k+1..n in order; the calls after the n-th return nothing
C2_FifoDrain ==
    (HasArray /\ outcome = "ok" /\ IsSome(scan_result))
        => LET n == Len(ResultArray)
               k == Min(iters, n)
           IN  /\ Len(Buffered) = n - k
               /\ \A i \in 1..Len(Buffered) : Buffered[i].src = <<gen, k + i>>
               /\ (op = "iter_scan" /\ iters <= n)
                    => /\ ret = "Some"
                       /\ row.src = <<gen, iters>>
                       /\ row.cells =
                            record_to_row(ResultArray[iters], ScanIn.columns).v
               /\ (op = "iter_scan" /\ iters > n) => ret = "None"

\* C2 witness: the second row of a two-record response was returned by the
\* second iter_scan, after a different first row
C2_Witness ==
    /\ HasArray /\ outcome = "ok" /\ op = "iter_scan"
    /\ Len(ResultArray) = 2 /\ ResultArray[1] # ResultArray[2]
    /\ iters = 2 /\ ret = "Some" /\ row.src = <<gen, 2>>

\* C3: an iter_scan made when the buffer is exhausted, unset or released
\* returns nothing and leaves the buffer, the client, the base URL and the
\* caller's row as they were
C3_DrainIdempotent ==
    [][(op' = "iter_scan" /\ Buffered = <<>>)
        => /\ ret' = "None"
           /\ UNCHANGED <<scan_result, client, base_url, row>>]_vars

\* C3 witness: a second iter_scan past the end of a buffer that held rows
C3_Witness ==
    /\ op = "iter_scan" /\ ret = "None"
    /\ IsSome(scan_result) /\ Buffered = <<>>
    /\ HasArray /\ Len(ResultArray) > 0 /\ iters > Len(ResultArray) + 1

\* record i of the last response is an object without a field for the
\* target column j, which is not the reserved column
AbsentField(i, j) ==
    /\ IsSome(as_object(ResultArray[i]))
    /\ ScanIn.columns[j].name # "_attrs"
    /\ IsNone(MapGet(Unwrap(as_object(ResultArray[i])), ScanIn.columns[j].name))

\* record i of the last response is an object holding a field for the target
\* column j, which is not the reserved column
PresentField(i, j) ==
    /\ IsSome(as_object(ResultArray[i]))
    /\ ScanIn.columns[j].name # "_attrs"
    /\ IsSome(MapGet(Unwrap(as_object(ResultArray[i])), ScanIn.columns[j].name))

FieldValue(i, j) ==
    Unwrap(MapGet(Unwrap(as_object(ResultArray[i])), ScanIn.columns[j].name))

RecordIndexes == 1..Len(ResultArray)
ColumnIndexes == 1..Len(ScanIn.columns)

\* C4 as stated: a target column whose field is absent from a record makes
\* the call fail with a type mismatch on that column
C4_AbsentFieldMismatch ==
    (op = "begin_scan" /\ HasArray)
        => \A i \in RecordIndexes, j \in ColumnIndexes :
              AbsentField(i, j) => IsSome(panicked)

\* C4 as amended: an absent field gives a null cell for its column and no
\* failure; a mismatch always names a column whose field is present
C4_AbsentFieldNull ==
    (op = "begin_scan" /\ HasArray)
        => /\ IsNone(panicked)
                => \A i \in RecordIndexes, j \in ColumnIndexes :
                      AbsentField(i, j)
                        => Buffered[i].cells[j] =
                              [name |-> ScanIn.columns[j].name, cell |-> None]
           /\ IsSome(panicked)
                => \E i \in RecordIndexes, j \in ColumnIndexes :
                      /\ PresentField(i, j)
                      /\ Unwrap(panicked) = column_type_mismatch(ScanIn.columns[j])
           /\ (\A i \in RecordIndexes, j \in ColumnIndexes : ~PresentField(i, j))
                => IsNone(panicked)

\* C4 witness: a scan returned with a null cell for an absent field
C4_Witness ==
    /\ op = "begin_scan" /\ HasArray /\ IsNone(panicked)
    /\ \E i \in RecordIndexes, j \in ColumnIndexes :
          /\ AbsentField(i, j)
          /\ Buffered[i].cells[j].cell = None

\* the coercion of the field of record i for column j fails
FailsAt(i, j) ==
    PresentField(i, j) /\ convert(FieldValue(i, j), ScanIn.columns[j]).st = "panic"

\* C5: when a cell of a record of the response fails coercion, the call
\* fails with a mismatch naming a failing column, and no row of that
\* response is ever buffered or returned
C5_AllOrNothing ==
    (HasArray /\ \E i \in RecordIndexes, j \in ColumnIndexes : FailsAt(i, j))
        => /\ op = "begin_scan"
                => /\ IsSome(panicked)
                   /\ \E i \in RecordIndexes, j \in ColumnIndexes :
                         /\ FailsAt(i, j)
                         /\ Unwrap(panicked) =
                                column_type_mismatch(ScanIn.columns[j])
           /\ \A i \in 1..Len(Buffered) : Buffered[i].src[1] # gen
           /\ row.src[1] # gen

\* C5 witness: iter_scan was called after a scan whose second record failed
\* coercion and whose first record did not
C5_Witness ==
    /\ HasArray /\ op = "iter_scan"
    /\ Len(ResultArray) = 2
    /\ \E j \in ColumnIndexes : FailsAt(2, j)
    /\ \A j \in ColumnIndexes : ~FailsAt(1, j)

\* the integer target types, their widths and their cell variants
IntOids == {CHAROID, INT2OID, INT4OID, INT8OID}
IntWidth(oid) ==
    CASE oid = CHAROID -> 8 [] oid = INT2OID -> 16
      [] oid = INT4OID -> 32 [] oid = INT8OID -> 64
IntTag(w) ==
    CASE w = 8 -> "I8" [] w = 16 -> "I16" [] w = 32 -> "I32" [] w = 64 -> "I64"
\* 2^(w-1) - 1 and 2^(w-1), written out
IntMaxMag(w) ==
    CASE w = 8 -> <<127, 0, 0, 0>> [] w = 16 -> <<32767, 0, 0, 0>>
      [] w = 32 -> <<65535, 32767, 0, 0>>
      [] w = 64 -> <<65535, 65535, 65535, 32767>>
IntMinMag(w) ==
    CASE w = 8 -> <<128, 0, 0, 0>> [] w = 16 -> <<32768, 0, 0, 0>>
      [] w = 32 -> <<0, 32768, 0, 0>>
      [] w = 64 -> <<0, 0, 0, 32768>>

IsInteger(v) == v.kind = "number" /\ v.n.t \in {"PosInt", "NegInt"}
\* -2^(w-1) <= v <= 2^(w-1) - 1
Fits(w, v) ==
    /\ IsInteger(v)
    /\ \/ v.n.t = "PosInt" /\ LimbLE(v.n.mag, IntMaxMag(w))
       \/ v.n.t = "NegInt" /\ LimbLE(v.n.mag, IntMinMag(w))

\* the last begin_scan coerced one field of one record for one column of an
\* integer type
OneIntegerCell ==
    /\ op = "begin_scan" /\ HasArray
    /\ Len(ResultArray) = 1 /\ Len(ScanIn.columns) = 1
    /\ PresentField(1, 1)
    /\ ScanIn.columns[1].type_oid \in IntOids

\* C6: for an integer target of width w the coercion of v succeeds exactly
\* when v is an integer with -2^(w-1) <= v <= 2^(w-1)-1, and then gives the
\* cell of that width holding v; otherwise it fails with a type mismatch
C6_IntegerRange ==
    OneIntegerCell
        => LET col == ScanIn.columns[1]
               w == IntWidth(col.type_oid)
               v == FieldValue(1, 1)
           IN  IF Fits(w, v)
               THEN /\ IsNone(panicked)
                    /\ Len(Buffered) = 1
                    /\ Buffered[1].cells[1].cell =
                          Some([tag |-> IntTag(w),
                                i |-> Int64(v.n.t = "NegInt", v.n.mag)])
               ELSE /\ panicked = Some(column_type_mismatch(col))
                    /\ Buffered = <<>>

\* C6 witness: -128 was coerced to an 8-bit cell
C6_Witness ==
    /\ OneIntegerCell
    /\ ScanIn.columns[1].type_oid = CHAROID
    /\ FieldValue(1, 1) = JNegInt(Small(128))
    /\ Buffered[1].cells[1].cell = Some(CellI8(Int64(TRUE, Small(128))))

\* C7: with api_key among the options the client is built from that literal
\* and the secret store is not queried; the store is queried, once and for
\* api_key_id, exactly when api_key is absent and api_key_id present
C7_CredentialPrecedence ==
    LET o == new_in.options
    IN  /\ "api_key" \in DOMAIN o
            => /\ IsSome(client)
               /\ Unwrap(client).api_key = o.api_key
               /\ vault_queries = <<>>
        /\ Len(vault_queries) <= 1
        /\ Len(vault_queries) = 1
            <=> ("api_key" \notin DOMAIN o /\ "api_key_id" \in DOMAIN o)
        /\ Len(vault_queries) = 1 => vault_queries[1] = o.api_key_id

\* C7 witness: an instance built from options holding both api_key and an
\* api_key_id that the secret store resolves
C7_Witness ==
    /\ {"api_key", "api_key_id"} \subseteq DOMAIN new_in.options
    /\ new_in.options.api_key_id \in DOMAIN new_in.vault
    /\ IsSome(client)
    /\ op = "begin_scan"

\* the row built from record i holds, for the _attrs column j, a string cell
\* with the serialised record
AttrsCell(i, j) ==
    /\ Len(Buffered[i].cells) >= j
    /\ Buffered[i].cells[j] =
          [name |-> "_attrs", cell |-> Some(CellString(to_string(ResultArray[i])))]

\* C8 as stated: every record of a successful response gives, for every
\* target column named _attrs, a string cell with the serialised record
C8_AttrsAnyRecord ==
    (op = "begin_scan" /\ HasArray /\ outcome = "ok")
        => \A i \in RecordIndexes, j \in ColumnIndexes :
              ScanIn.columns[j].name = "_attrs" => AttrsCell(i, j)

\* C8 as amended: every record of a successful response that is a JSON
\* object gives, for every target column named _attrs and whatever its
\* declared type, a string cell with the serialised record
C8_AttrsObjectRecord ==
    (op = "begin_scan" /\ HasArray /\ outcome = "ok")
        => \A i \in RecordIndexes, j \in ColumnIndexes :
              (ScanIn.columns[j].name = "_attrs" /\ IsSome(as_object(ResultArray[i])))
                  => AttrsCell(i, j)

\* C8 witness: an _attrs column declared int4 holds the text of the record
C8_Witness ==
    /\ op = "begin_scan" /\ HasArray /\ outcome = "ok"
    /\ ScanIn.columns[1] = Column("_attrs", INT4OID)
    /\ Len(Buffered) = 1
    /\ Len(Buffered[1].cells) = 1
    /\ Buffered[1].cells[1].cell = Some(CellString("{\"v\":-2147483648}"))

\* C9: once a begin_scan call has returned, iter_scan returns no row that
\* an earlier begin_scan buffered
C9_BeginScanReplacesBuffer ==
    (op = "iter_scan" /\ ret = "Some" /\ outcome \notin {"mismatch", "bad_json"})
        => row.src[1] = gen

\* a status outside 200..299
NonSuccess(status) == status < 200 \/ status > 299

\* the request of the last begin_scan failed: a transport failure, a
\* non-success status other than 404, or a success status with a body that
\* is not JSON
RequestFailed ==
    /\ gen > 0
    /\ \/ ScanIn.resp.t = "err"
       \/ /\ ScanIn.resp.t = "resp"
          /\ \/ NonSuccess(ScanIn.resp.status) /\ ScanIn.resp.status # NOT_FOUND
             \/ ~NonSuccess(ScanIn.resp.status) /\ IsNone(ScanIn.resp.json)

\* C10: a failed request is reported as a wrapper-layer error, the call
\* returns, and no row of that response becomes available
C10_RequestFailuresReported ==
    RequestFailed
        => /\ op = "begin_scan"
                => /\ \E k \in 1..Len(reported) :
                         reported[k].code = ERRCODE_FDW_ERROR
                   /\ IsNone(panicked)
           /\ \A i \in 1..Len(Buffered) : Buffered[i].src[1] # gen

\* the options of the instance hold no credential: no api_key, and no
\* api_key_id that the secret store resolves
NoCredential ==
    LET o == new_in.options
    IN  /\ "api_key" \notin DOMAIN o
        /\ "api_key_id" \in DOMAIN o => o.api_key_id \notin DOMAIN new_in.vault

\* C11: an instance built without a credential has no client and an unset
\* buffer, its construction and its calls raise and report nothing, its
\* begin_scan calls send no request, and its iter_scan calls return nothing
C11_NoCredentialNoClient ==
    NoCredential
        => /\ IsNone(client)
           /\ IsNone(scan_result)
           /\ IsNone(request)
           /\ IsNone(panicked) /\ reported = <<>>
           /\ gen > 0 => outcome \in {"no_endpoint", "no_client"}
           /\ op = "iter_scan" => ret = "None" /\ row = EmptyRow

\* C11 witness: iter_scan was called after a begin_scan with an endpoint on
\* an instance whose api_key_id the secret store does not resolve
C11_Witness ==
    /\ NoCredential /\ "api_key_id" \in DOMAIN new_in.options
    /\ op = "iter_scan" /\ gen > 0 /\ outcome = "no_client"
    /\ "endpoint" \in DOMAIN ScanIn.options

\* C12: a begin_scan whose options hold no endpoint sends no request, raises
\* and reports nothing and leaves the buffer unset, so that the iter_scan
\* after it returns nothing
C12_MissingEndpointEmptyScan ==
    (gen > 0 /\ outcome = "no_endpoint")
        => /\ op = "begin_scan"
                => /\ IsNone(request)
                   /\ reported = <<>> /\ IsNone(panicked)
                   /\ IsNone(scan_result)
           /\ (op = "iter_scan" /\ iters = 1) => ret = "None"

\* the transport of the last begin_scan answers with a success status after
\* its failures
ThenSucceeds ==
    /\ sent.transport.then.t = "resp"
    /\ sent.transport.then.status >= 200 /\ sent.transport.then.status <= 299

\* the transport of the last begin_scan fails transiently at every attempt
\* the client can make
AlwaysFails ==
    \/ sent.transport.fails > 3
    \/ sent.transport.then \in {TransportError("timeout"), TransportError("connect")}

\* C13: the client retries at most 3 times: a request whose transport fails
\* transiently k <= 3 times and then succeeds hands that success to
\* begin_scan after exactly k + 1 attempts; a transport that always fails
\* transiently gives a transport error, reported as a request failure, after
\* exactly 4 attempts; no request takes more than 4 attempts
C13_RetryBound ==
    (op = "begin_scan" /\ IsSome(request))
        => /\ sent.attempts >= 1 /\ sent.attempts <= 4
           /\ (sent.transport.fails <= 3 /\ ThenSucceeds)
                => /\ sent.attempts = sent.transport.fails + 1
                   /\ ScanIn.resp = sent.transport.then
                   /\ outcome \in {"ok", "mismatch", "bad_json"}
           /\ AlwaysFails
                => /\ sent.attempts = 4
                   /\ ScanIn.resp.t = "err"
                   /\ outcome = "transport"
                   /\ Len(reported) = 1
                   /\ reported[1].code = ERRCODE_FDW_ERROR

\* C13 witness: a request answered at its fourth attempt, after three
\* transient failures, buffered the row of the response
C13_Witness ==
    /\ op = "begin_scan" /\ IsSome(request)
    /\ sent.transport.fails = 3 /\ ThenSucceeds
    /\ sent.attempts = 4 /\ outcome = "ok" /\ Len(Buffered) = 1

\* C14: the validator reports the missing option, and nothing else, exactly
\* when the object is a foreign table and none of its options is the
\* endpoint; otherwise it reports nothing
C14_ValidatorRequiresEndpoint ==
    op = "validator"
        => LET in == Unwrap(validator_in)
               has_endpoint ==
                   \E i \in 1..Len(in.options) :
                       /\ in.options[i] # None
                       /\ in.options[i][1][1] = "endpoint"
               required == in.catalog = <<3118>>
           IN  /\ (reported # <<>>) <=> (required /\ ~has_endpoint)
               /\ reported # <<>>
                    => reported = <<[code |-> ERRCODE_FDW_OPTION_NAME_NOT_FOUND,
                                     msg |-> option_not_specified("endpoint")]>>
               /\ IsNone(panicked)

\* C14 witness: a foreign table whose options hold an option beginning like
\* the endpoint, but not the endpoint, was refused
C14_Witness ==
    /\ op = "validator"
    /\ Unwrap(validator_in).catalog = Some(FOREIGN_TABLE_RELATION_ID)
    /\ Unwrap(validator_in).options = <<None, Some(<<"endpoints", "=", "a">>)>>
    /\ reported # <<>>

\* the error conditions the last call raised: the errors it reported and
\* the panic it ended with
ErrorCount == Len(reported) + (IF IsSome(panicked) THEN 1 ELSE 0)

\* C15: a begin_scan call raises at most one error condition, and a call
\* that raised one leaves no row of its response in the buffer
C15_SingleTerminalError ==
    op = "begin_scan"
        => /\ ErrorCount <= 1
           /\ ErrorCount > 0
                => \A i \in 1..Len(Buffered) : Buffered[i].src[1] # gen

\* the target types resp_to_rows has an arm for
SupportedOids == { BOOLOID, CHAROID, INT2OID, FLOAT4OID, INT4OID, FLOAT8OID,
                   INT8OID, NUMERICOID, TEXTOID, DATEOID, TIMESTAMPOID }

\* the (record, column) pairs of the last response, and their order of
\* processing
Pairs == RecordIndexes \X ColumnIndexes
Before(p, q) == p[1] < q[1] \/ (p[1] = q[1] /\ p[2] < q[2])

\* the pairs whose field is present for a column of an unsupported type
Unsupported ==
    { p \in Pairs : /\ PresentField(p[1], p[2])
                    /\ ScanIn.columns[p[2]].type_oid \notin SupportedOids }

\* the pairs whose field is present for a column of a supported type and
\* fails coercion
Mismatches ==
    { p \in Pairs : /\ PresentField(p[1], p[2])
                    /\ ScanIn.columns[p[2]].type_oid \in SupportedOids
                    /\ FailsAt(p[1], p[2]) }

\* the unsupported pairs reached before any mismatch
UnsupportedReached ==
    { p \in Unsupported : \A q \in Mismatches : Before(p, q) }

\* C16: every present field of a column of an unsupported type, unless a
\* mismatch ended the call before it, is reported as an invalid data type
\* with the column and its type oid, in the order of processing, and gets a
\* boolean false cell; the columns and records after it are processed as
\* usual, so that without a mismatch every record gives its full row
C16_UnsupportedTypePlaceholder ==
    (op = "begin_scan" /\ HasArray)
        => /\ Len(reported) = Cardinality(UnsupportedReached)
           /\ \A p \in UnsupportedReached :
                 reported[1 + Cardinality({ q \in UnsupportedReached : Before(q, p) })]
                    = [code |-> ERRCODE_FDW_INVALID_DATA_TYPE,
                       msg |-> "column '" \o ScanIn.columns[p[2]].name
                                \o "' data type oid '"
                                \o ToString(ScanIn.columns[p[2]].type_oid)
                                \o "' is not supported"]
           /\ Mismatches = {}
                => /\ outcome = "ok" /\ IsNone(panicked)
                   /\ Len(Buffered) = Len(ResultArray)
                   /\ \A i \in RecordIndexes :
                         IsSome(as_object(ResultArray[i]))
                            => Len(Buffered[i].cells) = Len(ScanIn.columns)
                   /\ \A p \in Unsupported :
                         Buffered[p[1]].cells[p[2]] =
                            [name |-> ScanIn.columns[p[2]].name,
                             cell |-> Some(CellBool(FALSE))]

\* C16 witness: two records with a jsonb column before an int2 column gave
\* two reports and two rows holding the placeholder and the int2 cell
C16_Witness ==
    /\ op = "begin_scan" /\ HasArray /\ outcome = "ok"
    /\ Len(ResultArray) = 2
    /\ Len(reported) = 2
    /\ reported[2].msg = "column 'name' data type oid '3802' is not supported"
    /\ Len(Buffered) = 2
    /\ Buffered[2].cells[2] = [name |-> "name", cell |-> Some(CellBool(FALSE))]
    /\ Buffered[2].cells[3] =
          [name |-> "id", cell |-> Some(CellI16(Int64(FALSE, Small(1))))]

\* the cell variant of a declared type ("-" for a type without one)
VariantOf(oid) ==
    CASE oid = BOOLOID -> "Bool" [] oid = CHAROID -> "I8"
      [] oid = INT2OID -> "I16" [] oid = FLOAT4OID -> "F32"
      [] oid = INT4OID -> "I32" [] oid = FLOAT8OID -> "F64"
      [] oid = INT8OID -> "I64" [] oid = NUMERICOID -> "Numeric"
      [] oid = TEXTOID -> "String" [] oid = DATEOID -> "Date"
      [] oid = TIMESTAMPOID -> "Timestamp" [] OTHER -> "-"

\* every cell of the row r, built by the last begin_scan, has the variant of
\* the declared type of its column
WellTyped(r) ==
    \A j \in 1..Len(r.cells) :
        IsSome(r.cells[j].cell)
            => Unwrap(r.cells[j].cell).tag = VariantOf(ScanIn.columns[j].type_oid)

\* C17: every cell in the buffer, and every cell iter_scan returned, has
\* the variant of the declared type of the column it is stored under
C17_CellTagMatchesColumnType ==
    gen > 0
        => /\ \A i \in 1..Len(Buffered) :
                 Buffered[i].src[1] = gen => WellTyped(Buffered[i])
           /\ (op = "iter_scan" /\ ret = "Some" /\ row.src[1] = gen)
                => WellTyped(row)

\* the names of the cells of a row, in their order
RECURSIVE CellNames(_)
CellNames(cells) ==
    IF cells = <<>> THEN <<>> ELSE <<Head(cells).name>> \o CellNames(Tail(cells))
RECURSIVE ColumnNames(_)
ColumnNames(cols) ==
    IF cols = <<>> THEN <<>> ELSE <<Head(cols).name>> \o ColumnNames(Tail(cols))

\* C18 as stated: a successful begin_scan buffers one row per record of the
\* result array, and every row has one field per target column, named after
\* it, in the order of the columns
C18_RowShapeAnyRecord ==
    (op = "begin_scan" /\ HasArray /\ outcome = "ok")
        => /\ Len(Buffered) = Len(ResultArray)
           /\ \A i \in 1..Len(Buffered) :
                 CellNames(Buffered[i].cells) = ColumnNames(ScanIn.columns)

\* C18 as amended: a successful begin_scan buffers one row per record of
\* the result array, in the order of the records; the row of a record that
\* is an object has one field per target column, named after it, in the
\* order of the columns, whatever fields the record holds and in whatever
\* order; the row of a record that is not an object has no field
C18_RowShapeObjectRecord ==
    (op = "begin_scan" /\ HasArray /\ outcome = "ok")
        => /\ Len(Buffered) = Len(ResultArray)
           /\ \A i \in 1..Len(Buffered) :
                 /\ Buffered[i].src = <<gen, i>>
                 /\ CellNames(Buffered[i].cells) =
                        IF ResultArray[i].kind = "object"
                        THEN ColumnNames(ScanIn.columns) ELSE <<>>

\* C18 witness: a number, then an object lacking the field of the last
\* column, gave an empty row and a row of three fields in column order
C18_Witness ==
    /\ op = "begin_scan" /\ HasArray /\ outcome = "ok"
    /\ Len(ResultArray) = 2
    /\ ResultArray[1].kind = "number"
    /\ ResultArray[2] = JObject(<<Entry("b", JString("y"))>>)
    /\ Buffered[1].cells = <<>>
    /\ CellNames(Buffered[2].cells) = <<"b", "_attrs", "a">>
    /\ Buffered[2].cells[3].cell = None

\* what begin_scan with the inputs of the call just made does on the
\* instance new returned
OnFreshInstance ==
    LET fresh == new(new_in.options, new_in.vault)
        in == Unwrap(scan_in')
    IN  begin_scan([base_url |-> fresh.base_url, client |-> fresh.client,
                    scan_result |-> fresh.scan_result],
                   in.columns, in.options, in.resp, gen')

\* what C19 asks of a step
EndScanContract ==
    /\ op' = "end_scan"
        => /\ scan_result' = None
           /\ UNCHANGED <<client, base_url, row>>
           /\ reported' = <<>> /\ panicked' = None /\ request' = None
    /\ (op = "end_scan" /\ op' = "end_scan")
        => UNCHANGED <<scan_result, client, base_url, row>>
    /\ (op = "end_scan" /\ op' = "begin_scan")
        => /\ scan_result' = OnFreshInstance.scan_result
           /\ reported' = OnFreshInstance.reported
           /\ panicked' = OnFreshInstance.panicked
           /\ request' = OnFreshInstance.request
           /\ outcome' = OnFreshInstance.outcome
           /\ UNCHANGED <<client, base_url>>

\* C19: end_scan leaves the buffer unset whatever it held, leaves the
\* client, the base URL and the caller's row as they were, and raises
\* nothing; an end_scan after an end_scan changes nothing; a begin_scan
\* after an end_scan does what it does on the instance new returned
C19_EndScanReleases == [][EndScanContract]_vars

\* C19 witness: a first scan returned its first row, its buffer was
\* released, and a second begin_scan, answered 404, found the buffer unset
C19_Witness ==
    /\ op = "begin_scan" /\ gen = 2 /\ outcome = "not_found"
    /\ row.src = <<1, 1>>
    /\ IsNone(scan_result)

\* the call just made was a begin_scan answered with a success status and a
\* JSON body that holds no result array
AnsweredWithoutArray ==
    /\ op' = "begin_scan" /\ outcome' = "ok"
    /\ Unwrap(scan_in').resp.status >= 200 /\ Unwrap(scan_in').resp.status <= 299
    /\ IsNone(result_array(Unwrap(Unwrap(scan_in').resp.json)))

\* what the iter_scan after the call just made would return, had the call
\* been answered resp instead
NextRowIfAnswered(resp) ==
    iter_scan(begin_scan([base_url |-> base_url, client |-> client,
                          scan_result |-> scan_result],
                         Unwrap(scan_in').columns, Unwrap(scan_in').options,
                         resp, gen').scan_result,
              row).ret

\* what C20 asks of a step
SilentlyEmpty ==
    AnsweredWithoutArray
        => /\ reported' = <<>> /\ panicked' = None
           /\ scan_result' = None
           /\ iter_scan(scan_result', row').ret = "None"
           /\ NextRowIfAnswered(Response(200, Some(ResultBody(<<>>)))) = "None"
           /\ NextRowIfAnswered(Response(NOT_FOUND, None)) = "None"

\* C20: a begin_scan answered with a success status and a JSON body that is
\* not an object, has no result field or whose result is not an array
\* reports nothing and leaves the buffer unset, whatever it held, so that
\* the next iter_scan returns nothing, as it would after an empty result
\* array and after a 404
C20_NoResultArraySilentlyEmpty == [][SilentlyEmpty]_vars

====
